---------------------------- MODULE Spec2Model ----------------------------
(***************************************************************************)
(* Swiss pairing solver (swiss.py): the spreadsheet fetch with its bye     *)
(* adjustment, the exact optimizer Pairer.Search over an incremental       *)
(* solver, and the Blitzstein-Diaconis random graph sampler.               *)
(*                                                                         *)
(* Python lists are modelled as TLA+ sequences, so list index k of the     *)
(* source is index k+1 here; player ids and graph vertices are 1..n.       *)
(***************************************************************************)
EXTENDS Integers, Sequences, FiniteSets, Bags, TLC

(***************************************************************************)
(* Bounds of the model.                                                    *)
(***************************************************************************)
MaxLen == 4        \* longest degree sequence handed to the sampler on its own
MaxDegree == 3     \* largest entry of such a degree sequence
NSamples == 2      \* the n of ImportanceSampledBlitzsteinDiaconis (100 in the source)
NPlayers == 3      \* rows of the Standings sheet
MaxWins == 1       \* largest entry of the wins column of the Standings sheet
MaxLosses == 0     \* largest entry of its losses column
MaxDraws == 0      \* largest entry of its draws column
MaxHistory == 1    \* rows of the earlier Cycle sheets
MaxStale == 2      \* loop iterations followed after the deadline has passed
MaxDepth == 3      \* frames pushed on the NamedStack under test
MaxBound == 1      \* bounds of the terms added to it
MaxVars == 5       \* longest list of variables handed to PopCount on its own
MaxCount == 5      \* largest count asked of it
MaxGames == 2      \* largest entry of a wins, losses or draws cell given to MismatchSum on its own

None == "None"
BYE == "BYE"

\* a Python variable that holds None or a value: <<>> or <<value>>
Nothing == <<>>
Some(x) == <<x>>
Val(x) == x[1]

VARIABLES
  caller_d,   \* the list object the caller passed to the sampler
  bd,         \* locals of the running BlitzsteinDiaconis call
  isbd,       \* locals of ImportanceSampledBlitzsteinDiaconis: population, weights
  sheet,      \* names and requested_matches of _FetchFromSheet before the bye
  pairer,     \* fields of the Pairer object
  pc,         \* where the program is: construction, Search, its loop, its end
  solver,     \* s, the NamedStack of Search: frames, _names, _depth
  minimum,    \* locals of Search
  model,
  loss,
  status,
  clock,      \* deadline passed or not, stale iterations, queries issued
  pairings,   \* the value Search returned
  output,     \* the pairings file written by Search
  stackLog,   \* labelled pushes of a NamedStack under test and its last call
  call        \* a function called on its own: its arguments and its result

samplerVars == <<caller_d, bd, isbd>>
pairerVars == <<sheet, pairer>>
unitVars == <<stackLog, call>>
searchVars == <<pc, solver, minimum, model, loss, status, clock, pairings, output>>
vars == <<caller_d, bd, isbd, sheet, pairer, pc, solver, minimum, model, loss, status,
          clock, pairings, output, stackLog, call>>
(***************************************************************************)
(* Arithmetic helpers: integers and fractions.Fraction (kept reduced).     *)
(***************************************************************************)
Min2(a, b) == IF a <= b THEN a ELSE b
Max2(a, b) == IF a >= b THEN a ELSE b
Abs(a) == IF a < 0 THEN 0 - a ELSE a

RECURSIVE GcdNat(_, _)
GcdNat(a, b) == IF b = 0 THEN a ELSE GcdNat(b, a % b)

Gcd(a, b) == GcdNat(Abs(a), Abs(b))

Fraction(num, den) ==
  LET g == Gcd(num, den)
      s == IF den < 0 THEN 0 - 1 ELSE 1
  IN  [numerator |-> s * (num \div g), denominator |-> s * (den \div g)]

FracSub(f, g) ==
  Fraction(f.numerator * g.denominator - g.numerator * f.denominator,
           f.denominator * g.denominator)
FracMul(f, g) == Fraction(f.numerator * g.numerator, f.denominator * g.denominator)
FracDiv(f, g) == Fraction(f.numerator * g.denominator, f.denominator * g.numerator)
FracInt(k) == [numerator |-> k, denominator |-> 1]

Lcm(a, b) == (a * b) \div Gcd(a, b)

Odd(n) == n % 2 = 1
Even(n) == n % 2 = 0

RECURSIVE SumSeq(_)
SumSeq(s) == IF s = <<>> THEN 0 ELSE Head(s) + SumSeq(Tail(s))

RECURSIVE SumOver(_, _)
SumOver(S, f) ==
  IF S = {} THEN 0
  ELSE LET x == CHOOSE y \in S : TRUE IN f[x] + SumOver(S \ {x}, f)

(***************************************************************************)
(* Graphical(d): the Erdos-Gallai test as the source computes it.          *)
(***************************************************************************)
Positive(s) == SelectSeq(s, LAMBDA x : x > 0)

RECURSIVE SortReverse(_)
SortReverse(s) ==
  IF s = <<>> THEN <<>>
  ELSE LET k == CHOOSE j \in 1..Len(s) : \A l \in 1..Len(s) : s[j] >= s[l]
       IN  <<s[k]>> \o SortReverse(SubSeq(s, 1, k - 1) \o SubSeq(s, k + 1, Len(s)))

\* variant: the Erdos-Gallai inequality must hold strictly
GraphicalStrict(dd) ==
  LET n == Len(dd)
      p == SortReverse(Positive(dd))
  IN  IF \E k \in 1..n : dd[k] < 0 THEN FALSE
      ELSE \A k \in 1..n :
             ~ (SumSeq(SubSeq(p, 1, Min2(k, Len(p))))
                  >= k * (k - 1)
                     + SumSeq([j \in 1..Max2(Len(p) - k, 0) |-> Min2(k, p[k + j])]))

\* Graphical: no negative entry, and the inequality for every k in 1..n
Graphical(dd) ==
  LET n == Len(dd)
      p == SortReverse(Positive(dd))
  IN  IF \E k \in 1..n : dd[k] < 0 THEN FALSE
      ELSE \A k \in 1..n :
             ~ (SumSeq(SubSeq(p, 1, Min2(k, Len(p))))
                  > k * (k - 1)
                    + SumSeq([j \in 1..Max2(Len(p) - k, 0) |-> Min2(k, p[k + j])]))

ArrayDecrement(indices, array) ==
  [k \in 1..Len(array) |->
     array[k] - Cardinality({x \in 1..Len(indices) : indices[x] = k})]

SortedPair(a, b) == <<Min2(a, b), Max2(a, b)>>

(***************************************************************************)
(* BlitzsteinDiaconis(d), one action per step of its two loops.            *)
(***************************************************************************)
BDIdle == [pc |-> "idle", d |-> <<>>, e |-> {}, i |-> 0,
           likelihood |-> FracInt(1), equivalence_class_size |-> 1]

BDCall == [pc |-> "start", d |-> <<>>, e |-> {}, i |-> 0,
           likelihood |-> FracInt(1), equivalence_class_size |-> 1]

\* d = d[:] ... if not Graphical(d): raise ValueError
BDStart ==
  /\ bd.pc = "start"
  /\ bd' = [BDCall EXCEPT !.d = caller_d,
                          !.pc = IF Graphical(caller_d) THEN "outer" ELSE "ValueError"]
  /\ UNCHANGED <<caller_d, isbd, pairerVars, unitVars, searchVars>>

\* while any(di > 0 ...): minimum = min(...); i = d.index(minimum); ...
BDPick ==
  /\ bd.pc = "outer"
  /\ \E k \in 1..Len(bd.d) : bd.d[k] > 0
  /\ LET smallest == CHOOSE m \in {bd.d[k] : k \in {x \in 1..Len(bd.d) : bd.d[x] > 0}} :
                      \A k \in 1..Len(bd.d) : bd.d[k] > 0 => m <= bd.d[k]
         idx == CHOOSE k \in 1..Len(bd.d) :
                  /\ bd.d[k] = smallest
                  /\ \A l \in 1..(k - 1) : bd.d[l] # smallest
     IN  bd' = [bd EXCEPT !.i = idx,
                          !.equivalence_class_size = @ * smallest,
                          !.pc = "inner"]
  /\ UNCHANGED <<caller_d, isbd, pairerVars, unitVars, searchVars>>

\* variant: the test j != i is left out
CandidatesWithSelf(dd, ee, v) ==
  {j \in 1..Len(dd) : /\ SortedPair(v, j) \notin ee
                      /\ Graphical(ArrayDecrement(<<v, j>>, dd))}

Candidates(dd, ee, v) ==
  {j \in 1..Len(dd) : /\ j # v
                      /\ SortedPair(v, j) \notin ee
                      /\ Graphical(ArrayDecrement(<<v, j>>, dd))}

\* one iteration of `while d[i] > 0`: random.choices raises IndexError on an
\* empty candidate list, otherwise an edge to the selection is added
BDEdge ==
  /\ bd.pc = "inner"
  /\ LET candidates == Candidates(bd.d, bd.e, bd.i)
     IN  IF candidates = {}
         THEN bd' = [bd EXCEPT !.pc = "IndexError"]
         ELSE \E selection \in candidates :
           /\ bd.d[selection] > 0        \* random.choices never draws weight 0
           /\ LET nd == ArrayDecrement(<<bd.i, selection>>, bd.d)
              IN  bd' = [bd EXCEPT
                     !.likelihood =
                        FracDiv(FracMul(@, FracInt(bd.d[selection])),
                                FracInt(SumOver(candidates, bd.d))),
                     !.e = @ \cup {SortedPair(bd.i, selection)},
                     !.d = nd,
                     !.pc = IF ~ Graphical(nd) THEN "AssertionError"
                            ELSE IF nd[bd.i] > 0 THEN "inner" ELSE "outer"]
  /\ UNCHANGED <<caller_d, isbd, pairerVars, unitVars, searchVars>>

\* return e, likelihood * equivalence_class_size
BDReturn ==
  /\ bd.pc = "outer"
  /\ \A k \in 1..Len(bd.d) : bd.d[k] <= 0
  /\ bd' = [bd EXCEPT !.pc = "done"]
  /\ UNCHANGED <<caller_d, isbd, pairerVars, unitVars, searchVars>>

BDResult == [e |-> bd.e,
             c_sigma |-> FracMul(bd.likelihood, FracInt(bd.equivalence_class_size))]



(***************************************************************************)
(* ImportanceSampledBlitzsteinDiaconis(d, n): n runs of the sampler, then  *)
(* one weighted draw from the population.                                  *)
(***************************************************************************)
ISBDIdle == [pc |-> "idle", population |-> <<>>, weights |-> <<>>, result |-> None]

ISBDCall == [pc |-> "loop", population |-> <<>>, weights |-> <<>>, result |-> None]

\* for _ in range(n): e, c_sigma = BlitzsteinDiaconis(d)
ISBDSample ==
  /\ isbd.pc = "loop"
  /\ bd.pc = "idle"
  /\ Len(isbd.population) < NSamples
  /\ bd' = BDCall
  /\ UNCHANGED <<caller_d, isbd, pairerVars, unitVars, searchVars>>

\* population.append(e); weights.append(1 / c_sigma)
ISBDAppend ==
  /\ isbd.pc = "loop"
  /\ bd.pc = "done"
  /\ isbd' = [isbd EXCEPT !.population = Append(@, BDResult.e),
                          !.weights = Append(@, FracDiv(FracInt(1), BDResult.c_sigma))]
  /\ bd' = BDIdle
  /\ UNCHANGED <<caller_d, pairerVars, unitVars, searchVars>>

\* return random.choices(population, weights, k=1)[0]
ISBDChoose ==
  /\ isbd.pc = "loop"
  /\ bd.pc = "idle"
  /\ Len(isbd.population) = NSamples
  /\ \E k \in 1..Len(isbd.population) :
       /\ isbd.weights[k].numerator > 0
       /\ isbd' = [isbd EXCEPT !.pc = "done", !.result = isbd.population[k]]
  /\ UNCHANGED <<caller_d, bd, pairerVars, unitVars, searchVars>>

Sampler == BDStart \/ BDPick \/ BDEdge \/ BDReturn
             \/ ISBDSample \/ ISBDAppend \/ ISBDChoose


(***************************************************************************)
(* The spreadsheet as Pairer._FetchFromSheet reads it.  Names are distinct *)
(* non-empty strings.  random.shuffle erases the order of the Standings    *)
(* rows, so the rows are listed in one order only (by requested matches,   *)
(* then by score); every arrangement of ids is produced by the shuffle.    *)
(***************************************************************************)
AllNames == <<"p1", "p2", "p3", "p4", "p5", "p6">>
SheetNames == SubSeq(AllNames, 1, NPlayers)

RequestCells == 0..3

\* fractions.Fraction(3 * w, 3 * (w + l + d)) if w + l + d else Fraction(1, 2)
Score(w, l, d) ==
  IF w + l + d # 0 THEN Fraction(3 * w, 3 * (w + l + d)) ELSE Fraction(1, 2)

ScoreCells ==
  {Score(w, l, d) : w \in 0..MaxWins, l \in 0..MaxLosses, d \in 0..MaxDraws}

FracLess(f, g) == f.numerator * g.denominator < g.numerator * f.denominator

RowBefore(r1, s1, r2, s2) == r1 < r2 \/ (r1 = r2 /\ ~ FracLess(s2, s1))

\* rows a Cycle sheet can hold: (player, opponent) or (player, BYE)
CycleRows ==
  {r \in {<<SheetNames[a], SheetNames[b]>> : a, b \in 1..NPlayers} : r[1] # r[2]}
    \cup {<<SheetNames[a], BYE>> : a \in 1..NPlayers}

\* the (requested, score) cells of the Standings rows, in the listed order
RECURSIVE Standings(_)
Standings(n) ==
  IF n = 0 THEN {<<>>}
  ELSE {Append(rows, cell) :
          rows \in Standings(n - 1), cell \in RequestCells \X ScoreCells}

OrderedStandings ==
  {rows \in Standings(NPlayers) :
     \A k \in 1..(NPlayers - 1) :
       RowBefore(rows[k][1], rows[k][2], rows[k + 1][1], rows[k + 1][2])}

RECURSIVE RowSets(_)
RowSets(n) ==
  IF n = 0 THEN {{}}
  ELSE RowSets(n - 1) \cup {rows \cup {r} : rows \in RowSets(n - 1), r \in CycleRows}

SheetInputs ==
  {[cycle |-> 1, requested |-> [k \in 1..NPlayers |-> st[k][1]],
    scores |-> [k \in 1..NPlayers |-> st[k][2]], rows |-> {}] :
     st \in OrderedStandings}
  \cup
  {[cycle |-> 2, requested |-> [k \in 1..NPlayers |-> x[1][k][1]],
    scores |-> [k \in 1..NPlayers |-> x[1][k][2]], rows |-> x[2]] :
     x \in OrderedStandings \X RowSets(MaxHistory)}

RECURSIVE LcmOfSet(_)
\* variant: the largest denominator instead of the least common multiple
LargestOfSet(S) ==
  IF S = {} THEN 1 ELSE CHOOSE x \in S : \A y \in S : x >= y

\* lines 352-354: lcm = Lcm(lcm, d) over the set of denominators
LcmOfSet(S) ==
  IF S = {} THEN 1
  ELSE LET x == CHOOSE y \in S : TRUE IN Lcm(LcmOfSet(S \ {x}), x)

\* rows with 0 < rm <= 3, in sheet order
Kept(requested) ==
  SelectSeq([k \in 1..Len(requested) |-> k],
            LAMBDA k : 0 < requested[k] /\ requested[k] <= 3)

\* variant: the rows are taken in the order of the sheet only
PreviousPairingsAsListed(rows) == rows

\* previous_pairings |= set(zip(a, b)); previous_pairings |= set(zip(b, a))
PreviousPairings(rows) == rows \cup {<<r[2], r[1]>> : r \in rows}

\* variant: the bye goes to any player without a bye in the history
ByeCandidatesAnyRequest(names, requested_matches, previous_pairings) ==
  {k \in 1..Len(names) : <<names[k], BYE>> \notin previous_pairings}

\* candidates for the bye: indices of the filtered lists
ByeCandidates(names, requested_matches, previous_pairings) ==
  {k \in 1..Len(names) : /\ requested_matches[k] = 3
                         /\ <<names[k], BYE>> \notin previous_pairings}

NoPairer == [cycle |-> 0, names |-> <<>>, scores |-> <<>>, requested_matches |-> <<>>,
             previous_pairings |-> {}, lcm |-> 1, byed_name |-> None]
NoSheet == [names |-> <<>>, requested_matches |-> <<>>]

\* The lists of _FetchFromSheet after the filter of lines 359-363.
Fetched(in) ==
  LET keep == Kept(in.requested)
  IN  [names |-> [k \in 1..Len(keep) |-> SheetNames[keep[k]]],
       requested_matches |-> [k \in 1..Len(keep) |-> in.requested[keep[k]]],
       scores |-> [k \in 1..Len(keep) |-> in.scores[keep[k]]],
       lcm |-> LcmOfSet({in.scores[k].denominator : k \in 1..NPlayers}),
       previous_pairings |-> PreviousPairings(in.rows)]

\* Pairer.__init__ over the shuffled names_scores_matches
NewPairer(in, f, requested_matches, byed_name, shuffle) ==
  [cycle |-> in.cycle,
   names |-> [k \in 1..Len(f.names) |-> f.names[shuffle[k]]],
   scores |-> [k \in 1..Len(f.names) |-> f.scores[shuffle[k]]],
   requested_matches |-> [k \in 1..Len(f.names) |-> requested_matches[shuffle[k]]],
   previous_pairings |-> f.previous_pairings,
   lcm |-> f.lcm,
   byed_name |-> byed_name]

\* Pairer(set_code, cycle) with an even total: no bye
FetchEven ==
  /\ pc = "new"
  /\ \E in \in SheetInputs :
       LET f == Fetched(in)
       IN  /\ f.names # <<>>
           /\ Even(SumSeq(f.requested_matches))
           /\ \E shuffle \in Permutations(1..Len(f.names)) :
                pairer' = NewPairer(in, f, f.requested_matches, None, shuffle)
           /\ sheet' = [names |-> f.names, requested_matches |-> f.requested_matches]
  /\ pc' = "constructed"
  /\ UNCHANGED <<samplerVars, unitVars, solver, minimum, model, loss, status, clock, pairings, output>>

\* Pairer(set_code, cycle) with an odd total: one candidate receives the bye
FetchOdd ==
  /\ pc = "new"
  /\ \E in \in SheetInputs :
       LET f == Fetched(in)
       IN  /\ f.names # <<>>
           /\ Odd(SumSeq(f.requested_matches))
           /\ \E byed_i \in ByeCandidates(f.names, f.requested_matches,
                                          f.previous_pairings) :
              \E shuffle \in Permutations(1..Len(f.names)) :
                pairer' = NewPairer(in, f,
                                    [f.requested_matches EXCEPT ![byed_i] = @ - 1],
                                    f.names[byed_i], shuffle)
           /\ sheet' = [names |-> f.names, requested_matches |-> f.requested_matches]
  /\ pc' = "constructed"
  /\ UNCHANGED <<samplerVars, unitVars, solver, minimum, model, loss, status, clock, pairings, output>>

\* no row with 0 < rm <= 3: the unpacking of zip(*[]) raises ValueError
FetchNobody ==
  /\ pc = "new"
  /\ \E in \in SheetInputs : Fetched(in).names = <<>>
  /\ pc' = "ValueError"
  /\ UNCHANGED <<samplerVars, unitVars, pairerVars, solver, minimum, model, loss, status, clock,
                 pairings, output>>

\* odd total and nobody eligible: random.choice([]) raises IndexError
FetchNoCandidate ==
  /\ pc = "new"
  /\ \E in \in SheetInputs :
       LET f == Fetched(in)
       IN  /\ f.names # <<>>
           /\ Odd(SumSeq(f.requested_matches))
           /\ ByeCandidates(f.names, f.requested_matches, f.previous_pairings) = {}
           /\ sheet' = [names |-> f.names, requested_matches |-> f.requested_matches]
  /\ pc' = "IndexError"
  /\ UNCHANGED <<samplerVars, unitVars, pairer, solver, minimum, model, loss, status, clock,
                 pairings, output>>

Fetch == FetchEven \/ FetchOdd \/ FetchNobody \/ FetchNoCandidate

(***************************************************************************)
(* The z3 side.  A slot variable is named by its pair of ids (n, m), n < m *)
(* (the source names it 'm_n,m'); a model is a truth assignment to the     *)
(* slots; a term is evaluated under an assignment.                         *)
(***************************************************************************)
\* MakeSlots(n_players): the keys (n, m) in insertion order
MakeSlots(n_players) ==
  LET pairs == {p \in (1..n_players) \X (1..n_players) : p[1] < p[2]}
      RECURSIVE InOrder(_)
      InOrder(S) ==
        IF S = {} THEN <<>>
        ELSE LET p == CHOOSE q \in S : \A r \in S :
                        q[1] < r[1] \/ (q[1] = r[1] /\ q[2] <= r[2])
             IN  <<p>> \o InOrder(S \ {p})
  IN  InOrder(pairs)

SeqToSet(q) == {q[k] : k \in 1..Len(q)}

Assignments(slots) == [SeqToSet(slots) -> BOOLEAN]

\* z3.Or(vs) under assignment a
OrOf(vs, a) == \E k \in 1..Len(vs) : a[vs[k]]

\* variant: the variables outside the combination are left unconstrained
EnumeratedPopCountAtLeast(vs, n, a) ==
  IF n = 0 THEN ~ OrOf(vs, a)
  ELSE \E combo \in {c \in SUBSET (1..Len(vs)) : Cardinality(c) = n} :
         \A k \in combo : a[vs[k]]

EnumeratedPopCount(vs, n, a) ==
  IF n = 0 THEN ~ OrOf(vs, a)
  ELSE \E combo \in {c \in SUBSET (1..Len(vs)) : Cardinality(c) = n} :
         \A k \in 1..Len(vs) : IF k \in combo THEN a[vs[k]] ELSE ~ a[vs[k]]

RECURSIVE PopCount(_, _, _)
\* variant: the recursive encoding without the z3.Or(vs) term
PopCountWithoutOr(vs, n, a) ==
  IF n = 0 THEN ~ OrOf(vs, a)
  ELSE IF n \in {1, 2, 3} THEN EnumeratedPopCount(vs, n, a)
  ELSE \A k \in 1..Len(vs) :
         \E b \in 0..(n - 1) :
           /\ a[vs[k]] => PopCount(SubSeq(vs, 1, k - 1), b, a)
           /\ a[vs[k]] => PopCount(SubSeq(vs, k + 1, Len(vs)), n - 1 - b, a)

\* PopCount(vs, n) under assignment a
PopCount(vs, n, a) ==
  IF n = 0 THEN ~ OrOf(vs, a)
  ELSE IF n \in {1, 2, 3} THEN EnumeratedPopCount(vs, n, a)
  ELSE /\ OrOf(vs, a)
       /\ \A k \in 1..Len(vs) :
            \E b \in 0..(n - 1) :
              /\ a[vs[k]] => PopCount(SubSeq(vs, 1, k - 1), b, a)
              /\ a[vs[k]] => PopCount(SubSeq(vs, k + 1, Len(vs)), n - 1 - b, a)

\* the adjacency list of player n in RequestedMatchesForOnePlayer
Adjacency(n, n_players) ==
  LET others == SelectSeq([m \in 1..n_players |-> m], LAMBDA m : m # n)
  IN  [k \in 1..Len(others) |-> SortedPair(n, others[k])]

Term(kind, vs, n) == [kind |-> kind, vs |-> vs, n |-> n]

\* RequestedMatches: one PopCount term per player (n_players = len(slots) + 1)
RequestedMatches(slots, requested_matches) ==
  LET n_players == Cardinality({p[1] : p \in SeqToSet(slots)}) + 1
  IN  {Term("PopCount", Adjacency(n, n_players), requested_matches[n]) :
         n \in 1..n_players}

\* variant: the history is asked about (name of n, name of n)
NoRepeatMatchesSameIndex(slots, previous_pairings, reverse_players) ==
  {Term("Not", <<p>>, 0) :
     p \in {q \in SeqToSet(slots) :
              <<reverse_players[q[1]], reverse_players[q[1]]>> \in previous_pairings}}

\* NoRepeatMatches: Not(slot) where (name of n, name of m) is in the history
NoRepeatMatches(slots, previous_pairings, reverse_players) ==
  {Term("Not", <<p>>, 0) :
     p \in {q \in SeqToSet(slots) :
              <<reverse_players[q[1]], reverse_players[q[2]]>> \in previous_pairings}}

FracSquare(f) == FracMul(f, f)

\* MismatchSum: the coefficient of each slot in the metric, and its assertion
SlotDiff(p, scores) == FracSquare(FracSub(scores[p[2]], scores[p[1]]))

MismatchAssert(slots, scores, lcm) ==
  \A p \in SeqToSet(slots) :
    (SlotDiff(p, scores).numerator * lcm * lcm) % SlotDiff(p, scores).denominator = 0

MismatchSum(slots, scores, lcm) ==
  [p \in SeqToSet(slots) |->
     (SlotDiff(p, scores).numerator * lcm * lcm) \div SlotDiff(p, scores).denominator]

\* model.evaluate(metric)
Evaluate(metric, a) ==
  SumOver(DOMAIN metric, [p \in DOMAIN metric |-> IF a[p] THEN metric[p] ELSE 0])

Holds(term, a, metric) ==
  CASE term.kind = "Not" -> ~ a[term.vs[1]]
    [] term.kind = "PopCount" -> PopCount(term.vs, term.n, a)
    [] term.kind = "Ge" -> Evaluate(metric, a) >= term.n
    [] term.kind = "Le" -> Evaluate(metric, a) <= term.n

(***************************************************************************)
(* NamedStack: the solver's frames with the wrapper's _names and _depth.   *)
(***************************************************************************)
NewNamedStack == [frames |-> <<{}>>, names |-> <<>>, depth |-> 0]

Truthy(name) == name # None /\ name # ""

push(st, name) ==
  [frames |-> Append(st.frames, {}),
   names |-> IF Truthy(name) THEN (name :> st.depth) @@ st.names ELSE st.names,
   depth |-> st.depth + 1]

\* z3.Solver.pop raises when there is no frame; a missing label is a KeyError
CanPop(st, name) ==
  IF Truthy(name) THEN name \in DOMAIN st.names ELSE Len(st.frames) > 1

\* variant: a labelled pop removes one frame, as an anonymous pop does
popOneFrame(st, name) ==
  [frames |-> SubSeq(st.frames, 1, Len(st.frames) - 1),
   names |-> IF Truthy(name) THEN [x \in (DOMAIN st.names) \ {name} |-> st.names[x]]
             ELSE st.names,
   depth |-> st.depth - 1]

\* NamedStack.pop: down to the depth recorded under the label, or one frame
pop(st, name) ==
  IF Truthy(name)
  THEN LET target == st.names[name]
           k == IF st.depth > target THEN st.depth - target ELSE 0
       IN  [frames |-> SubSeq(st.frames, 1, Len(st.frames) - k),
            names |-> [x \in (DOMAIN st.names) \ {name} |-> st.names[x]],
            depth |-> st.depth - k]
  ELSE [frames |-> SubSeq(st.frames, 1, Len(st.frames) - 1),
        names |-> st.names,
        depth |-> st.depth - 1]

NoCall == [fn |-> None]

\* nothing pushed under a label yet, no call made
NoStackLog ==
  [marks |-> <<>>, last |-> [op |-> None, name |-> None, from |-> 0, expect |-> Nothing]]

add(st, terms) ==
  [st EXCEPT !.frames[Len(st.frames)] = @ \cup terms]

Asserted(st) == UNION {st.frames[k] : k \in 1..Len(st.frames)}

\* the assignments s.check() can answer sat with
Models(st, slots, metric) ==
  {a \in Assignments(slots) : \A term \in Asserted(st) : Holds(term, a, metric)}

(***************************************************************************)
(* Pairer.Search.  Main calls it with random_pairings = (cycle in (1,)).   *)
(***************************************************************************)
Slots == MakeSlots(Len(pairer.names))
Metric == MismatchSum(Slots, pairer.scores, pairer.lcm)

\* Main: pairer.Search(seconds=4000, random_pairings=FLAGS.cycle in (1,))
random_pairings == pairer.cycle \in {1}

\* variant: the asserted upper bound is one above the given bound
LeLoose(bound) == Term("Le", <<>>, bound + 1)

Le(bound) == Term("Le", <<>>, bound)

Ge(bound) == Term("Ge", <<>>, bound)

NewClock == [expired |-> FALSE, stale |-> 0, checks |-> 0]

\* s = NamedStack(); s.push(); the NoRepeatMatches terms are added
SearchSolver ==
  add(push(NewNamedStack, None),
      NoRepeatMatches(Slots, pairer.previous_pairings, pairer.names))

\* lines 240-266 with random_pairings false: up to the top of the loop
SearchExact ==
  /\ pc = "constructed"
  /\ ~ random_pairings
  /\ IF MismatchAssert(Slots, pairer.scores, pairer.lcm)
     THEN /\ solver' = add(SearchSolver, RequestedMatches(Slots, pairer.requested_matches))
          /\ pc' = "loop"
     ELSE /\ solver' = SearchSolver
          /\ pc' = "AssertionError"
  /\ minimum' = 0
  /\ model' = Nothing
  /\ loss' = Nothing
  /\ status' = None
  /\ clock' = NewClock
  /\ UNCHANGED <<samplerVars, pairerVars, unitVars, pairings, output>>

\* variant: minimum is raised by half the gap instead of to the midpoint
NextMinimumHalfGap(l, m) == (l - m) \div 2 + 1

\* line 287: the new lower bound after an unsat answer
NextMinimum(l, m) == (l + m) \div 2 + 1

\* variant: the loop is left as soon as the loss is within one of minimum
AfterSatNearMinimum(a) ==
  /\ model' = Some(a)
  /\ loss' = Some(Evaluate(Metric, a))
  /\ minimum' = minimum
  /\ IF Val(loss') <= minimum + 1
     THEN /\ pc' = "OPTIMAL"
          /\ solver' = solver
     ELSE /\ pc' = "loop"
          /\ solver' = add(push(solver, None), {Le((Val(loss') + minimum) \div 2)})

\* the statements after a query, lines 273-298, for a given status
AfterSat(a) ==
  /\ model' = Some(a)
  /\ loss' = Some(Evaluate(Metric, a))
  /\ minimum' = minimum
  /\ IF Val(loss') = minimum
     THEN /\ pc' = "OPTIMAL"
          /\ solver' = solver
     ELSE /\ pc' = "loop"
          /\ solver' = add(push(solver, None), {Le((Val(loss') + minimum) \div 2)})

\* variant: an unsat answer with no model leaves the loop as a timeout does
AfterUnsatBreak ==
  /\ model' = model
  /\ loss' = loss
  /\ IF model = Nothing
     THEN /\ pc' = "TIMED_OUT"
          /\ minimum' = minimum
          /\ solver' = solver
     ELSE IF ~ CanPop(solver, None)
     THEN /\ pc' = "Z3Exception"
          /\ minimum' = minimum
          /\ solver' = solver
     ELSE /\ pc' = "loop"
          /\ minimum' = NextMinimum(Val(loss), minimum)
          /\ solver' = add(push(push(add(pop(solver, None), {Ge(minimum')}), None), None),
                           {Le((Val(loss) + minimum') \div 2)})

\* lines 279-289 and 296-298: return when there is no model, else raise minimum
AfterUnsat ==
  /\ model' = model
  /\ loss' = loss
  /\ IF model = Nothing
     THEN /\ pc' = "infeasible"
          /\ minimum' = minimum
          /\ solver' = solver
     ELSE IF ~ CanPop(solver, None)
     THEN /\ pc' = "Z3Exception"
          /\ minimum' = minimum
          /\ solver' = solver
     ELSE /\ pc' = "loop"
          /\ minimum' = NextMinimum(Val(loss), minimum)
          /\ solver' = add(push(push(add(pop(solver, None), {Ge(minimum')}), None), None),
                      {Le((Val(loss) + minimum') \div 2)})

AfterUnknown ==
  /\ model' = model
  /\ minimum' = minimum
  /\ loss' = loss
  /\ IF ~ CanPop(solver, None)
     THEN /\ pc' = "Z3Exception"
          /\ solver' = solver
     ELSE IF loss = Nothing
     THEN /\ pc' = "Z3Exception"         \* metric <= None
          /\ solver' = push(pop(solver, None), None)
     ELSE /\ pc' = "TIMED_OUT"
          /\ solver' = add(push(pop(solver, None), None), {Le(Val(loss))})

Queried == [clock EXCEPT !.checks = @ + 1]

\* an iteration with time left whose query answers sat
IterSat ==
  /\ pc = "loop"
  /\ ~ clock.expired
  /\ \E a \in Models(solver, Slots, Metric) : AfterSat(a)
  /\ status' = "sat"
  /\ clock' = Queried
  /\ UNCHANGED <<samplerVars, pairerVars, unitVars, pairings, output>>

\* an iteration with time left whose query answers unsat
IterUnsat ==
  /\ pc = "loop"
  /\ ~ clock.expired
  /\ Models(solver, Slots, Metric) = {}
  /\ AfterUnsat
  /\ status' = "unsat"
  /\ clock' = Queried
  /\ UNCHANGED <<samplerVars, pairerVars, unitVars, pairings, output>>

\* an iteration with time left whose query runs into the timeout
IterUnknown ==
  /\ pc = "loop"
  /\ ~ clock.expired
  /\ AfterUnknown
  /\ status' = "unknown"
  /\ clock' = Queried
  /\ UNCHANGED <<samplerVars, pairerVars, unitVars, pairings, output>>

Stale ==
  /\ pc = "loop"
  /\ clock.stale < MaxStale
  /\ clock' = [clock EXCEPT !.expired = TRUE, !.stale = @ + 1]
  /\ status' = status

\* Timeleft(deadline) <= 0 on the first iteration: status was never bound
StaleUnbound ==
  /\ Stale
  /\ status = None
  /\ pc' = "UnboundLocalError"
  /\ UNCHANGED <<samplerVars, pairerVars, unitVars, solver, minimum, model, loss, pairings, output>>

\* Timeleft(deadline) <= 0 and the last status was sat: s.model() is asked
\* again without a query and hands back the model of the last query
StaleSat ==
  /\ Stale
  /\ status = "sat"
  /\ AfterSat(Val(model))
  /\ UNCHANGED <<samplerVars, pairerVars, unitVars, pairings, output>>

\* ... or raises, since assertions were added after the last query
StaleSatNoModel ==
  /\ Stale
  /\ status = "sat"
  /\ pc' = "Z3Exception"
  /\ UNCHANGED <<samplerVars, pairerVars, unitVars, solver, minimum, model, loss, pairings, output>>

\* Timeleft(deadline) <= 0 and the last status was unsat
StaleUnsat ==
  /\ Stale
  /\ status = "unsat"
  /\ AfterUnsat
  /\ UNCHANGED <<samplerVars, pairerVars, unitVars, pairings, output>>

\* ModelPlayers: (name of m, name of n) for every true slot, last slot first
RECURSIVE ModelPlayers(_, _, _)
ModelPlayers(slots, a, reverse_players) ==
  IF slots = <<>> THEN <<>>
  ELSE LET p == slots[Len(slots)]
           rest == ModelPlayers(SubSeq(slots, 1, Len(slots) - 1), a, reverse_players)
       IN  IF a[p] THEN <<<<reverse_players[p[2]], reverse_players[p[1]]>>>> \o rest
           ELSE rest

RECURSIVE SeqToBag(_)
SeqToBag(q) == IF q = <<>> THEN EmptyBag ELSE SetToBag({Head(q)}) (+) SeqToBag(Tail(q))

\* variant: the bye is never appended
ByePairingDropped == <<>>

ByePairing == IF Truthy(pairer.byed_name) THEN <<<<pairer.byed_name, BYE>>>> ELSE <<>>

\* lines 300-309: print and write the model, return the pairings
SearchReturn ==
  /\ pc \in {"OPTIMAL", "TIMED_OUT"}
  /\ IF model = Nothing
     THEN /\ pc' = "AttributeError"
          /\ UNCHANGED <<pairings, output>>
     ELSE LET final_loss == Evaluate(Metric, Val(model))
              total_matches == Cardinality({p \in DOMAIN Val(model) : Val(model)[p]})
          IN  IF total_matches = 0
              THEN /\ pc' = "ZeroDivisionError"
                   /\ UNCHANGED <<pairings, output>>
              ELSE /\ pc' = "returned"
                   /\ output' = Some([matches |-> ModelPlayers(Slots, Val(model), pairer.names),
                                      final_loss |-> final_loss])
                   /\ pairings' = Some(SeqToBag(ModelPlayers(Slots, Val(model), pairer.names)
                                                  \o ByePairing))
  /\ UNCHANGED <<samplerVars, pairerVars, unitVars, solver, minimum, model, loss, status, clock>>

\* lines 240-250 with random_pairings true: the sampler is called
SearchRandom ==
  /\ pc = "constructed"
  /\ random_pairings
  /\ solver' = SearchSolver
  /\ caller_d' = pairer.requested_matches
  /\ isbd' = ISBDCall
  /\ pc' = "sampling"
  /\ UNCHANGED <<bd, pairerVars, unitVars, minimum, model, loss, status, clock, pairings, output>>

RECURSIVE EdgeBag(_, _)
EdgeBag(edge_set, reverse_players) ==
  IF edge_set = {} THEN EmptyBag
  ELSE LET p == CHOOSE q \in edge_set : TRUE
       IN  SetToBag({<<reverse_players[p[1]], reverse_players[p[2]]>>})
             (+) EdgeBag(edge_set \ {p}, reverse_players)

\* lines 251-257: the sampled edges become the pairings
SearchRandomReturn ==
  /\ pc = "sampling"
  /\ isbd.pc = "done"
  /\ pairings' = Some(SeqToBag(ByePairing) (+) EdgeBag(isbd.result, pairer.names))
  /\ pc' = "returned"
  /\ UNCHANGED <<samplerVars, pairerVars, unitVars, solver, minimum, model, loss, status, clock, output>>

Search == SearchExact \/ IterSat \/ IterUnsat \/ IterUnknown
            \/ StaleUnbound \/ StaleSat \/ StaleSatNoModel \/ StaleUnsat
            \/ SearchReturn \/ SearchRandom \/ SearchRandomReturn

(***************************************************************************)
(* The program: Pairer(set_code, cycle), then Search.                      *)
(***************************************************************************)
Init ==
  /\ caller_d = <<>>
  /\ bd = BDIdle
  /\ isbd = ISBDIdle
  /\ sheet = NoSheet
  /\ pairer = NoPairer
  /\ pc = "new"
  /\ solver = NewNamedStack
  /\ minimum = 0
  /\ model = Nothing
  /\ loss = Nothing
  /\ status = None
  /\ clock = NewClock
  /\ pairings = Nothing
  /\ output = Nothing
  /\ stackLog = NoStackLog
  /\ call = NoCall

Next == Fetch \/ Search \/ Sampler

Spec == Init /\ [][Next]_vars
(***************************************************************************)
(* The sampler on its own: called with any short degree sequence.          *)
(***************************************************************************)
DegreeSequences ==
  UNION {[1..n -> (0 - 1)..MaxDegree] : n \in 0..MaxLen}

InitBD ==
  /\ caller_d \in DegreeSequences
  /\ bd = BDIdle
  /\ isbd = ISBDCall
  /\ sheet = NoSheet
  /\ pairer = NoPairer
  /\ pc = "sampler"
  /\ solver = NewNamedStack
  /\ minimum = 0
  /\ model = Nothing
  /\ loss = Nothing
  /\ status = None
  /\ clock = NewClock
  /\ pairings = Nothing
  /\ output = Nothing
  /\ stackLog = NoStackLog
  /\ call = NoCall

NextBD == Sampler

SpecBD == InitBD /\ [][NextBD]_vars

(***************************************************************************)
(* Simple graphs and their degree sequences.                               *)
(***************************************************************************)
AllPairs(n) == {p \in (1..n) \X (1..n) : p[1] < p[2]}

Degree(E, v) == Cardinality({p \in E : p[1] = v \/ p[2] = v})

Realizes(E, dd) ==
  /\ E \subseteq AllPairs(Len(dd))
  /\ \A v \in 1..Len(dd) : Degree(E, v) = dd[v]

IsDegreeSequence(dd) == \E E \in SUBSET AllPairs(Len(dd)) : Realizes(E, dd)


(***************************************************************************)
(* The program when every query is answered sat or unsat before the        *)
(* deadline.  The loop is sequential code: while it is in the loop with    *)
(* time left, the next query is made.                                      *)
(***************************************************************************)
NextNoTimeout ==
  \/ Fetch
  \/ SearchExact \/ IterSat \/ IterUnsat \/ SearchReturn
  \/ SearchRandom \/ SearchRandomReturn
  \/ Sampler

\* lines 267-272: an iteration that calls s.check()
Iteration == pc = "loop" /\ ~ clock.expired /\ clock' = Queried

SpecNoTimeout == Init /\ [][NextNoTimeout]_vars /\ WF_clock(Iteration)

(***************************************************************************)
(* A NamedStack driven by arbitrary calls of push, add and pop, with and   *)
(* without labels.  stackLog.marks remembers, for each label, the depth    *)
(* and the frames at its push for as long as the stack has stayed above    *)
(* that depth; stackLog.last is the call just made.                        *)
(***************************************************************************)
Labels == {"a", "b"}
PushNames == Labels \cup {None}

Call(op, name, expect) ==
  [op |-> op, name |-> name, from |-> solver.depth, expect |-> expect]

\* the marks that survive when the stack is at the given depth
KeepMarks(marks, depth) ==
  [l \in {x \in DOMAIN marks : marks[x].depth < depth} |-> marks[l]]

\* s.push(name)
StackPush ==
  /\ pc = "stack"
  /\ solver.depth < MaxDepth
  /\ \E name \in PushNames :
       /\ solver' = push(solver, name)
       /\ stackLog' =
            [marks |-> IF Truthy(name)
                       THEN (name :> [depth |-> solver.depth, frames |-> solver.frames])
                              @@ stackLog.marks
                       ELSE stackLog.marks,
             last |-> Call("push", name, Nothing)]
  /\ UNCHANGED <<samplerVars, pairerVars, call, pc, minimum, model, loss, status, clock,
                 pairings, output>>

\* s.add(term): the assertion goes into the top frame
StackAdd ==
  /\ pc = "stack"
  /\ \E bound \in 0..MaxBound :
       /\ Ge(bound) \notin solver.frames[Len(solver.frames)]
       /\ solver' = add(solver, {Ge(bound)})
  /\ stackLog' = [stackLog EXCEPT !.last = Call("add", None, Nothing)]
  /\ UNCHANGED <<samplerVars, pairerVars, call, pc, minimum, model, loss, status, clock,
                 pairings, output>>

\* s.pop(name)
StackPop ==
  /\ pc = "stack"
  /\ \E name \in PushNames :
       IF CanPop(solver, name)
       THEN /\ solver' = pop(solver, name)
            /\ pc' = pc
            /\ stackLog' =
                 [marks |-> KeepMarks([l \in (DOMAIN stackLog.marks) \ {name} |->
                                         stackLog.marks[l]], solver'.depth),
                  last |-> Call("pop", name,
                                IF name \in DOMAIN stackLog.marks
                                THEN Some(stackLog.marks[name]) ELSE Nothing)]
       ELSE /\ solver' = solver
            /\ pc' = IF Truthy(name) THEN "KeyError" ELSE "Z3Exception"
            /\ stackLog' = [stackLog EXCEPT !.last = Call("pop", name, Nothing)]
  /\ UNCHANGED <<samplerVars, pairerVars, call, minimum, model, loss, status, clock,
                 pairings, output>>

InitStack ==
  /\ caller_d = <<>>
  /\ bd = BDIdle
  /\ isbd = ISBDIdle
  /\ sheet = NoSheet
  /\ pairer = NoPairer
  /\ pc = "stack"
  /\ solver = NewNamedStack
  /\ minimum = 0
  /\ model = Nothing
  /\ loss = Nothing
  /\ status = None
  /\ clock = NewClock
  /\ pairings = Nothing
  /\ output = Nothing
  /\ stackLog = NoStackLog
  /\ call = NoCall

NextStack == StackPush \/ StackAdd \/ StackPop

SpecStack == InitStack /\ [][NextStack]_vars

(***************************************************************************)
(* PopCount called on its own, on every list of up to MaxVars variables,   *)
(* every count up to MaxCount and every assignment of the variables.       *)
(***************************************************************************)
Variables(len) == Adjacency(1, len + 1)

PopCountCalls ==
  UNION {{[fn |-> "PopCount", vs |-> Variables(len), n |-> k, a |-> a, result |-> Nothing] :
            k \in 0..MaxCount, a \in Assignments(Variables(len))} : len \in 0..MaxVars}

\* the formula PopCount(vs, n) is built and evaluated under the assignment
PopCountCall ==
  /\ pc = "PopCount"
  /\ call.result = Nothing
  /\ call' = [call EXCEPT !.result = Some(PopCount(call.vs, call.n, call.a))]
  /\ UNCHANGED <<samplerVars, pairerVars, searchVars, stackLog>>

InitPopCount ==
  /\ caller_d = <<>>
  /\ bd = BDIdle
  /\ isbd = ISBDIdle
  /\ sheet = NoSheet
  /\ pairer = NoPairer
  /\ pc = "PopCount"
  /\ solver = NewNamedStack
  /\ minimum = 0
  /\ model = Nothing
  /\ loss = Nothing
  /\ status = None
  /\ clock = NewClock
  /\ pairings = Nothing
  /\ output = Nothing
  /\ stackLog = NoStackLog
  /\ call \in PopCountCalls

NextPopCount == PopCountCall

SpecPopCount == InitPopCount /\ [][NextPopCount]_vars

(***************************************************************************)
(* NoRepeatMatches called on its own, on the previous_pairings that        *)
(* _FetchFromSheet builds from every small set of Cycle rows and on every  *)
(* numbering of the players.                                               *)
(***************************************************************************)
NoRepeatCalls ==
  {[fn |-> "NoRepeatMatches", rows |-> x[1],
    reverse_players |-> [k \in 1..NPlayers |-> SheetNames[x[2][k]]],
    result |-> Nothing] :
     x \in RowSets(MaxHistory + 1) \X Permutations(1..NPlayers)}

\* lines 366-374, then the terms NoRepeatMatches yields for the slots
NoRepeatCall ==
  /\ pc = "NoRepeatMatches"
  /\ call.result = Nothing
  /\ call' = [call EXCEPT !.result =
                Some(NoRepeatMatches(MakeSlots(NPlayers), PreviousPairings(call.rows),
                                     call.reverse_players))]
  /\ UNCHANGED <<samplerVars, pairerVars, searchVars, stackLog>>

InitNoRepeat ==
  /\ caller_d = <<>>
  /\ bd = BDIdle
  /\ isbd = ISBDIdle
  /\ sheet = NoSheet
  /\ pairer = NoPairer
  /\ pc = "NoRepeatMatches"
  /\ solver = NewNamedStack
  /\ minimum = 0
  /\ model = Nothing
  /\ loss = Nothing
  /\ status = None
  /\ clock = NewClock
  /\ pairings = Nothing
  /\ output = Nothing
  /\ stackLog = NoStackLog
  /\ call \in NoRepeatCalls

NextNoRepeat == NoRepeatCall

SpecNoRepeat == InitNoRepeat /\ [][NextNoRepeat]_vars

(***************************************************************************)
(* MismatchSum called on its own, on the scores of NPlayers players with   *)
(* up to MaxGames wins, losses and draws each and on the lcm that          *)
(* _FetchFromSheet computes from those scores.                             *)
(***************************************************************************)
GameScores ==
  {Score(w, l, d) : w \in 0..MaxGames, l \in 0..MaxGames, d \in 0..MaxGames}

MismatchCalls ==
  {[fn |-> "MismatchSum", scores |-> scores,
    lcm |-> LcmOfSet({scores[k].denominator : k \in 1..NPlayers}),
    result |-> Nothing] : scores \in [1..NPlayers -> GameScores]}

\* the assertion of line 200 for every slot, and the terms of the sum
MismatchCall ==
  /\ pc = "MismatchSum"
  /\ call.result = Nothing
  /\ call' = [call EXCEPT !.result =
                Some([asserted |-> MismatchAssert(MakeSlots(NPlayers), call.scores, call.lcm),
                      metric |-> MismatchSum(MakeSlots(NPlayers), call.scores, call.lcm)])]
  /\ UNCHANGED <<samplerVars, pairerVars, searchVars, stackLog>>

InitMismatch ==
  /\ caller_d = <<>>
  /\ bd = BDIdle
  /\ isbd = ISBDIdle
  /\ sheet = NoSheet
  /\ pairer = NoPairer
  /\ pc = "MismatchSum"
  /\ solver = NewNamedStack
  /\ minimum = 0
  /\ model = Nothing
  /\ loss = Nothing
  /\ status = None
  /\ clock = NewClock
  /\ pairings = Nothing
  /\ output = Nothing
  /\ stackLog = NoStackLog
  /\ call \in MismatchCalls

NextMismatch == MismatchCall

SpecMismatch == InitMismatch /\ [][NextMismatch]_vars

(***************************************************************************)
(* BlitzsteinDiaconis(d) on a degree sequence d, with the random choices   *)
(* resolved towards one realization of d: call.target is any simple graph  *)
(* with degree sequence d, and a selection is followed only when its edge  *)
(* is in the target.                                                       *)
(***************************************************************************)
Realizations(dd) == {E \in SUBSET AllPairs(Len(dd)) : Realizes(E, dd)}

TargetCalls(dd) ==
  {[fn |-> "BlitzsteinDiaconis", target |-> E] : E \in Realizations(dd)}

\* an iteration of `while d[i] > 0` whose selection is a neighbour in the target
BDEdgeToward ==
  /\ BDEdge
  /\ bd'.e \subseteq call.target

InitBDToward ==
  /\ caller_d \in DegreeSequences
  /\ call \in TargetCalls(caller_d)
  /\ bd = BDCall
  /\ isbd = ISBDIdle
  /\ sheet = NoSheet
  /\ pairer = NoPairer
  /\ pc = "sampler"
  /\ solver = NewNamedStack
  /\ minimum = 0
  /\ model = Nothing
  /\ loss = Nothing
  /\ status = None
  /\ clock = NewClock
  /\ pairings = Nothing
  /\ output = Nothing
  /\ stackLog = NoStackLog

NextBDToward == BDStart \/ BDPick \/ BDEdgeToward \/ BDReturn

SpecBDToward == InitBDToward /\ [][NextBDToward]_vars
\* C6: Graphical(d) is true exactly when d is the degree sequence of some
\* simple graph; a sequence with an odd sum is never accepted.
C6_GraphicalIffDegreeSequence ==
  bd.pc \notin {"idle", "start"} =>
    /\ (bd.pc # "ValueError") <=> IsDegreeSequence(caller_d)
    /\ Odd(SumSeq(caller_d)) => bd.pc = "ValueError"

\* C7: on every input that Graphical accepts, the sampler never fails: the
\* candidate set is never empty and the assertion after each edge holds.
C7_SamplerNeverFails ==
  Graphical(caller_d) => bd.pc \notin {"IndexError", "AssertionError"}

\* the state part of C8: every edge set returned by BlitzsteinDiaconis or by
\* ImportanceSampledBlitzsteinDiaconis is a set of pairs (i, j), i < j, in
\* which vertex i has exactly d[i] edges, and the caller's list is unchanged.
C8_ReturnedGraph ==
  /\ bd.pc = "done" => Realizes(bd.e, caller_d)
  /\ isbd.pc = "done" => Realizes(isbd.result, caller_d)

\* C8: at every step the returned edge sets realize d as a simple graph and
\* no step of the sampler changes the caller's list d.
C8_ReturnedGraphRealizesD == [] C8_ReturnedGraph /\ [][caller_d' = caller_d]_vars

C8_Witness ==
  /\ isbd.pc = "done"
  /\ Cardinality(isbd.result) >= 3
  /\ \E k \in 1..Len(isbd.population) : isbd.population[k] # isbd.result


(***************************************************************************)
(* Properties of Pairer.Search.                                            *)
(***************************************************************************)
Returned == pc = "returned"
Optimal == pc = "OPTIMAL" \/ (Returned /\ status = "sat")
TimedOut == pc = "TIMED_OUT" \/ (Returned /\ status = "unknown")
Raised == pc \in {"ValueError", "IndexError", "AssertionError", "Z3Exception",
                  "UnboundLocalError", "AttributeError", "ZeroDivisionError"}

IsBye(p) == p[1] = BYE \/ p[2] = BYE

RECURSIVE CopiesOver(_, _)
CopiesOver(S, bag) ==
  IF S = {} THEN 0
  ELSE LET p == CHOOSE q \in S : TRUE
       IN  CopiesIn(p, bag) + CopiesOver(S \ {p}, bag)

\* number of non-BYE pairings of the list that contain the player
MatchesOf(name, bag) ==
  CopiesOver({p \in BagToSet(bag) : ~ IsBye(p) /\ (p[1] = name \/ p[2] = name)}, bag)

ByesIn(bag) == CopiesOver({p \in BagToSet(bag) : IsBye(p)}, bag)

\* requested_matches of the k-th fetched player once the bye is taken off
AfterBye(k) ==
  sheet.requested_matches[k] - (IF sheet.names[k] = pairer.byed_name THEN 1 ELSE 0)

\* C1: in every pairing list the exact optimizer returns, OPTIMAL or
\* TIMED_OUT, each player is in as many non-BYE pairings as the player's
\* requested_matches after the bye adjustment.
C1_RequestedMatchesMet ==
  (Returned /\ ~ random_pairings) =>
    \A k \in 1..Len(sheet.names) :
      MatchesOf(sheet.names[k], Val(pairings)) = AfterBye(k)

C1_Witness ==
  /\ Returned /\ ~ random_pairings
  /\ TimedOut
  /\ Truthy(pairer.byed_name)
  /\ MatchesOf(pairer.byed_name, Val(pairings)) = 2

\* C2: no pairing of a list the exact optimizer returns, the BYE pairing
\* included, is in previous_pairings in either order.
C2_NoRepeatedPairing ==
  (Returned /\ ~ random_pairings) =>
    \A p \in BagToSet(Val(pairings)) :
      /\ p \notin pairer.previous_pairings
      /\ <<p[2], p[1]>> \notin pairer.previous_pairings

C2_Witness ==
  /\ Returned /\ ~ random_pairings
  /\ \E p \in pairer.previous_pairings :
       /\ MatchesOf(p[1], Val(pairings)) > 0
       /\ MatchesOf(p[2], Val(pairings)) > 0

\* C3: a returned pairing list, in either mode, has exactly one pairing
\* against BYE when the total of requested_matches before the bye adjustment
\* is odd, and none when it is even.
C3_ByeIffOddTotal ==
  Returned =>
    ByesIn(Val(pairings)) = (IF Odd(SumSeq(sheet.requested_matches)) THEN 1 ELSE 0)

C3_Witness ==
  /\ Returned
  /\ random_pairings
  /\ Odd(SumSeq(sheet.requested_matches))
  /\ ByesIn(Val(pairings)) = 1

\* the slot assignments that meet the no-repeat and requested-count rules
FeasibleAssignments ==
  {a \in Assignments(Slots) :
     /\ \A p \in SeqToSet(Slots) :
          a[p] => /\ <<pairer.names[p[1]], pairer.names[p[2]]>>
                       \notin pairer.previous_pairings
                  /\ <<pairer.names[p[2]], pairer.names[p[1]]>>
                       \notin pairer.previous_pairings
     /\ \A n \in 1..Len(pairer.names) :
          Degree({p \in SeqToSet(Slots) : a[p]}, n) = pairer.requested_matches[n]}

C9_TimeoutReturnsBestModel ==
  status = "unknown" =>
    /\ ~ Raised
    /\ model # Nothing
    /\ Returned =>
         Val(pairings) = SeqToBag(ModelPlayers(Slots, Val(model), pairer.names)
                                    \o ByePairing)

\* the state part of C10: when the first query answers unsat, Search returns without a pairing
\* list, does nothing more with the solver and writes no pairings file.
C10_Infeasible ==
  (status = "unsat" /\ model = Nothing) =>
    /\ pc = "infeasible"
    /\ pairings = Nothing
    /\ output = Nothing
    /\ clock.checks = 1
    /\ solver.depth = 1

\* C10: a first query answered unsat ends Search with no pairing list, no
\* pairings file and no further solver operation, and nothing happens after.
C10_FirstUnsatIsFinal ==
  /\ [] C10_Infeasible
  /\ [][pc = "infeasible" => UNCHANGED vars]_vars

C10_Witness ==
  /\ pc = "infeasible"
  /\ pairer.previous_pairings # {}
  /\ Len(pairer.names) >= 3

(***************************************************************************)
(* Properties of the bye selection of Pairer._FetchFromSheet.              *)
(***************************************************************************)
\* requested_matches of a player as the constructed Pairer holds it
PairerRequested(name) ==
  pairer.requested_matches[CHOOSE k \in 1..Len(pairer.names) : pairer.names[k] = name]

\* C11: with an odd total, the player given the bye had requested_matches 3
\* and no (name, BYE) in the history; that player's requested_matches drops
\* to 2, every other player's is unchanged, and the adjusted total is even.
C11_ByeRecipient ==
  (pairer # NoPairer /\ Odd(SumSeq(sheet.requested_matches))) =>
    /\ Truthy(pairer.byed_name)
    /\ Len(pairer.names) = Len(sheet.names)
    /\ \A k \in 1..Len(sheet.names) :
         IF sheet.names[k] = pairer.byed_name
         THEN /\ sheet.requested_matches[k] = 3
              /\ <<sheet.names[k], BYE>> \notin pairer.previous_pairings
              /\ PairerRequested(sheet.names[k]) = 2
         ELSE PairerRequested(sheet.names[k]) = sheet.requested_matches[k]
    /\ \E k \in 1..Len(sheet.names) : sheet.names[k] = pairer.byed_name
    /\ Even(SumSeq(pairer.requested_matches))

C11_Witness ==
  /\ pc = "constructed"
  /\ Truthy(pairer.byed_name)
  /\ Odd(SumSeq(sheet.requested_matches))
  /\ \E k \in 1..Len(sheet.names) :
       /\ sheet.requested_matches[k] = 3
       /\ <<sheet.names[k], BYE>> \in pairer.previous_pairings

(***************************************************************************)
(* Properties of the loop of Pairer.Search and of its solver stack.        *)
(***************************************************************************)
\* the step is a loop iteration that found Timeleft(deadline) <= 0
DeadlinePassed == pc = "loop" /\ clock'.stale > clock.stale

\* C12: an iteration that finds the deadline passed issues no query and
\* leaves the loop in TIMED_OUT at once, keeping the best-known model; the
\* status of an earlier query is never acted on.
C12_DeadlineEndsLoop ==
  [][DeadlinePassed =>
       /\ pc' = "TIMED_OUT"
       /\ clock'.checks = clock.checks
       /\ model' = model /\ model # Nothing
       /\ minimum' = minimum]_vars

\* the no-repeat and requested-count terms asserted before the loop
BaseConstraints ==
  NoRepeatMatches(Slots, pairer.previous_pairings, pairer.names)
    \cup RequestedMatches(Slots, pairer.requested_matches)

Committed(st) == {t \in Asserted(st) : t.kind = "Ge"}

\* frame k of the stack is rolled back by the step
RolledBack(k) ==
  k > Len(solver'.frames) \/ ~ (solver.frames[k] \subseteq solver'.frames[k])

\* C14: a pop of Search removes only the most recently pushed putative
\* frame (metric <= midpoint); the base constraints and every committed
\* metric >= minimum stay asserted.
C14_PopsOnlyPutative ==
  [][pc = "loop" =>
       /\ \A k \in 1..Len(solver.frames) :
            RolledBack(k) => /\ k = Len(solver.frames)
                             /\ \A t \in solver.frames[k] : t.kind = "Le"
       /\ BaseConstraints \subseteq Asserted(solver')
       /\ Committed(solver) \subseteq Committed(solver')]_vars

\* C13: minimum is a sound inclusive lower bound at every point of the
\* loop: no feasible slot assignment has a metric below it, and it is at
\* most the loss of the recorded model.
C13_MinimumIsLowerBound ==
  pc \in {"loop", "OPTIMAL", "TIMED_OUT"} =>
    /\ \A a \in FeasibleAssignments : Evaluate(Metric, a) >= minimum
    /\ loss # Nothing => minimum <= Val(loss)

Gap == Val(loss) - minimum

LastCall == stackLog.last

\* C16: pop(label), made after push(label) at depth D and calls that kept
\* the stack above depth D, leaves the stack at depth D with the frames it
\* had before that push, whatever was pushed in between, and the label is
\* forgotten.
C16_NamedPopRestoresDepth ==
  (LastCall.op = "pop" /\ LastCall.expect # Nothing) =>
    /\ pc = "stack"
    /\ solver.depth = Val(LastCall.expect).depth
    /\ solver.frames = Val(LastCall.expect).frames
    /\ LastCall.name \notin DOMAIN solver.names

C16_Witness ==
  /\ LastCall.op = "pop"
  /\ LastCall.expect # Nothing
  /\ LastCall.from >= Val(LastCall.expect).depth + 3
  /\ Val(LastCall.expect).frames # <<{}>>

(***************************************************************************)
(* Properties of the constraint builders.                                  *)
(***************************************************************************)
TrueCount(vs, a) == Cardinality({k \in 1..Len(vs) : a[vs[k]]})

\* C17: PopCount(vs, k) holds under exactly the assignments that make
\* exactly k of the variables true, in the enumerated encoding and in the
\* recursive one; with k > len(vs) no assignment satisfies it.
C17_PopCountExact ==
  (call.fn = "PopCount" /\ call.result # Nothing) =>
    /\ Val(call.result) <=> (TrueCount(call.vs, call.a) = call.n)
    /\ call.n > Len(call.vs) => ~ Val(call.result)

C17_Witness ==
  /\ call.fn = "PopCount"
  /\ call.result = Some(TRUE)
  /\ call.n >= 4
  /\ Len(call.vs) > call.n

\* the slots of the pairs of players that met, in either order, in the rows
MetSlots(rows, reverse_players) ==
  {p \in SeqToSet(MakeSlots(Len(reverse_players))) :
     \/ <<reverse_players[p[1]], reverse_players[p[2]]>> \in rows
     \/ <<reverse_players[p[2]], reverse_players[p[1]]>> \in rows}

\* C18: NoRepeatMatches yields the negation of the slot of every pair of
\* players who are in the history in either order, and nothing else, so
\* the terms hold exactly when all those slots are false.
C18_NoRepeatTerms ==
  (call.fn = "NoRepeatMatches" /\ call.result # Nothing) =>
    LET met == MetSlots(call.rows, call.reverse_players)
    IN  /\ Val(call.result) = {Term("Not", <<p>>, 0) : p \in met}
        /\ \A a \in Assignments(MakeSlots(NPlayers)) :
             (\A term \in Val(call.result) : Holds(term, a, <<>>))
               <=> (\A p \in met : ~ a[p])

C18_Witness ==
  /\ call.fn = "NoRepeatMatches"
  /\ call.result # Nothing
  /\ Cardinality(Val(call.result)) = 1
  /\ Cardinality(call.rows) = 2
  /\ \E p \in MetSlots(call.rows, call.reverse_players) :
       /\ <<call.reverse_players[p[1]], call.reverse_players[p[2]]>> \notin call.rows
       /\ <<call.reverse_players[p[2]], call.reverse_players[p[1]]>> \in call.rows

\* C19: with lcm the least common multiple of the score denominators, the
\* squared score difference of every pair times lcm squared is an exact
\* non-negative integer: the assertion of MismatchSum holds and the metric
\* is a non-negative integer under every assignment.
C19_MetricIsInteger ==
  (call.fn = "MismatchSum" /\ call.result # Nothing) =>
    LET metric == Val(call.result).metric
    IN  /\ Val(call.result).asserted
        /\ \A k \in 1..NPlayers : call.lcm % call.scores[k].denominator = 0
        /\ \A p \in DOMAIN metric :
             LET diff == SlotDiff(p, call.scores)
             IN  /\ metric[p] \in Nat
                 /\ metric[p] * diff.denominator = diff.numerator * call.lcm * call.lcm
        /\ \A a \in Assignments(MakeSlots(NPlayers)) : Evaluate(metric, a) \in Nat

C19_Witness ==
  /\ call.fn = "MismatchSum"
  /\ call.result # Nothing
  /\ call.lcm >= 6
  /\ \E p \in DOMAIN Val(call.result).metric :
       /\ Val(call.result).metric[p] > 0
       /\ SlotDiff(p, call.scores).denominator > 1

(***************************************************************************)
(* The support of the sampler.                                             *)
(***************************************************************************)
\* the candidates of the current step whose edge is in the target
TowardTarget ==
  {j \in Candidates(bd.d, bd.e, bd.i) :
     /\ bd.d[j] > 0
     /\ SortedPair(bd.i, j) \in call.target \ bd.e}

\* C20: for every degree sequence d, every simple graph with degree
\* sequence d is a possible output of BlitzsteinDiaconis(d): the call is
\* not refused and does not fail, each selection step has a candidate of
\* positive weight whose edge is in the graph and not yet drawn, and the
\* edge set returned after these selections is the graph.
C20_FullSupport ==
  call.fn = "BlitzsteinDiaconis" =>
    /\ bd.pc \notin {"ValueError", "IndexError", "AssertionError"}
    /\ bd.e \subseteq call.target
    /\ bd.pc = "inner" => TowardTarget # {}
    /\ bd.pc = "done" => bd.e = call.target

C20_Witness ==
  /\ call.fn = "BlitzsteinDiaconis"
  /\ bd.pc = "done"
  /\ bd.e = call.target
  /\ Cardinality(bd.e) >= 4
  /\ \E v \in 1..Len(caller_d) : caller_d[v] = 1
=============================================================================
